---- MODULE Spec2Model ----
(***************************************************************************)
(* Model of the PynBall environment (src/pynball/pynball_env.py): the      *)
(* reset/step state machine, the substep loop with its collision           *)
(* tie-break, target termination, drag and the bounds check.               *)
(*                                                                         *)
(* Arithmetic is fixed point.  A velocity is an integer number of velocity *)
(* units; a position is an integer number of position units, one position  *)
(* unit being the displacement of one substep at velocity 1, so that       *)
(* Ball.step(step_duration) is exact.  The unit square is (0,W)x(0,W) with *)
(* W a field of the configuration.  Obstacles are axis-aligned rectangles, *)
(* whose edge and corner normals keep reflections integral.                *)
(***************************************************************************)
EXTENDS Integers, Sequences, FiniteSets, TLC

VARIABLES envs, rng, hist

vars == <<envs, rng, hist>>

----------------------------------------------------------------------------
(* Bounds of the model *)

MaxVel == 2
MaxOut == 1
MaxLog == 2

----------------------------------------------------------------------------
(* Program constants *)

THRUST_PENALTY == -5
NOP_PENALTY == -1

ACTION_DICT ==
    [a \in 0..4 |->
        CASE a = 0 -> <<1, 0>>
          [] a = 1 -> <<0, 1>>
          [] a = 2 -> <<-1, 0>>
          [] a = 3 -> <<0, -1>>
          [] a = 4 -> <<0, 0>>]

(* Thrust constant k of Ball.add_impulse, in velocity units. *)
ThrustK == 1

----------------------------------------------------------------------------
(* Vector2 / Point *)

Point(px, py) == [x |-> px, y |-> py]

Dot(u, v) == u.x * v.x + u.y * v.y

Sub(u, v) == Point(u.x - v.x, u.y - v.y)

Abs(n) == IF n < 0 THEN -n ELSE n

Sgn(n) == IF n < 0 THEN -1 ELSE IF n > 0 THEN 1 ELSE 0

(* Integer division truncating toward zero. *)
Quot(n, d) == IF n < 0 THEN -((-n) \div d) ELSE n \div d

----------------------------------------------------------------------------
(* Ball *)

NoBall == [none |-> TRUE]

Ball(px, py, vx, vy, r) == [x |-> px, y |-> py, xdot |-> vx, ydot |-> vy, radius |-> r]

(* Ball.add_impulse(dx, dy): xdot += dx * k, ydot += dy * k *)
add_impulse(ball, dx, dy) ==
    [ball EXCEPT !.xdot = @ + dx * ThrustK, !.ydot = @ + dy * ThrustK]

(* Ball.step(substeps): x += xdot / substeps, in position units (one       *)
(* position unit = 1/step_duration of the displacement of velocity 1).     *)
BallStep(ball, substeps, step_duration) ==
    [ball EXCEPT !.x = @ + Quot(ball.xdot * step_duration, substeps),
                 !.y = @ + Quot(ball.ydot * step_duration, substeps)]

(* Ball.set_velocity(v) *)
set_velocity(ball, v) == [ball EXCEPT !.xdot = v.x, !.ydot = v.y]

(* Ball.add_drag(d): velocity *= (1 - d), d = drag.num / drag.den *)
add_drag(ball, drag) ==
    [ball EXCEPT !.xdot = Quot(@ * (drag.den - drag.num), drag.den),
                 !.ydot = Quot(@ * (drag.den - drag.num), drag.den)]

(* Ball.get_center() *)
get_center(ball) == Point(ball.x, ball.y)

----------------------------------------------------------------------------
(* PolygonObstacle: points is a sequence of Points, consecutive points are *)
(* edges, the last point connects to the first.                            *)

EdgeStart(points, k) == points[k]

EdgeEnd(points, k) == points[(k % Len(points)) + 1]

(* Squared distance from p to the segment a-b: project p on the line,      *)
(* clamp the parameter to [0,1], measure to the clamped point.  Exact for  *)
(* axis-aligned segments.                                                  *)
SegDist2(p, a, b) ==
    LET d == Sub(b, a)
        len2 == Dot(d, d)
        t == Dot(Sub(p, a), d)
        cross == (p.x - a.x) * d.y - (p.y - a.y) * d.x
    IN  IF len2 = 0 \/ t <= 0 THEN Dot(Sub(p, a), Sub(p, a))
        ELSE IF t >= len2 THEN Dot(Sub(p, b), Sub(p, b))
        ELSE (cross * cross) \div len2

(* Where the clamped projection falls: "start", "end" or "inside". *)
SegFeature(p, a, b) ==
    LET d == Sub(b, a)
        len2 == Dot(d, d)
        t == Dot(Sub(p, a), d)
    IN  IF len2 = 0 \/ t <= 0 THEN "start"
        ELSE IF t >= len2 THEN "end"
        ELSE "inside"

(* PolygonObstacle.collision(ball): the minimum distance from the centre   *)
(* to any edge segment is less than the radius.                            *)
ObstacleCollision(points, ball) ==
    \E k \in 1..Len(points) :
        SegDist2(get_center(ball), EdgeStart(points, k), EdgeEnd(points, k))
            < ball.radius * ball.radius

(* Unit normal of edge k (axis-aligned edges). *)
EdgeNormal(points, k) ==
    LET d == Sub(EdgeEnd(points, k), EdgeStart(points, k))
    IN  Point(Sgn(d.y), -Sgn(d.x))

(* squared distance from the centre to edge k *)
EdgeDist2(points, ball, k) ==
    SegDist2(get_center(ball), EdgeStart(points, k), EdgeEnd(points, k))

(* Index of the edge nearest the centre (the first of equally near ones). *)
NearestEdge(points, ball) ==
    CHOOSE k \in 1..Len(points) :
        /\ \A j \in 1..Len(points) : EdgeDist2(points, ball, k) <= EdgeDist2(points, ball, j)
        /\ \A j \in 1..(k - 1) : EdgeDist2(points, ball, j) > EdgeDist2(points, ball, k)

PrevEdge(points, k) == IF k = 1 THEN Len(points) ELSE k - 1

NextEdge(points, k) == (k % Len(points)) + 1

(* normal at feature f of edge k: the edge's normal when the nearest point *)
(* is inside the edge, the sum of the two adjacent edge normals at a       *)
(* vertex (normalised by Reflect)                                          *)
FeatureNormal(points, k, f) ==
    IF f = "inside" THEN EdgeNormal(points, k)
    ELSE IF f = "start"
        THEN Point(EdgeNormal(points, k).x + EdgeNormal(points, PrevEdge(points, k)).x,
                   EdgeNormal(points, k).y + EdgeNormal(points, PrevEdge(points, k)).y)
    ELSE Point(EdgeNormal(points, k).x + EdgeNormal(points, NextEdge(points, k)).x,
               EdgeNormal(points, k).y + EdgeNormal(points, NextEdge(points, k)).y)

EdgeFeatureNormal(points, ball, k) ==
    FeatureNormal(points, k,
        SegFeature(get_center(ball), EdgeStart(points, k), EdgeEnd(points, k)))

(* Normal used for the bounce *)
CollisionNormal(points, ball) == EdgeFeatureNormal(points, ball, NearestEdge(points, ball))

(* v' = v - 2 (v.n) n for the unit vector along n *)
Reflect(v, n) ==
    LET nn == Dot(n, n)
    IN  IF nn = 0 THEN v
        ELSE Point(v.x - Quot(2 * Dot(v, n) * n.x, nn),
                   v.y - Quot(2 * Dot(v, n) * n.y, nn))

(* PolygonObstacle.collision_effect(ball) *)
collision_effect(points, ball) ==
    Reflect(Point(ball.xdot, ball.ydot), CollisionNormal(points, ball))

----------------------------------------------------------------------------
(* Target.collision(ball): circle-circle overlap *)

TargetCollision(target, ball) ==
    LET d == Sub(get_center(ball), target.point)
        rr == target.radius + ball.radius
    IN  Dot(d, d) < rr * rr

----------------------------------------------------------------------------
(* Configurations (the parsed TOML document read by PynBall.__init__).     *)
(* W is the side of the unit square in position units.                     *)

Rect(x0, y0, x1, y1) == <<Point(x0, y0), Point(x1, y0), Point(x1, y1), Point(x0, y1)>>

Configs ==
    << (* a wall and two boxes sharing an edge, two substeps, no drag *)
       [seed |-> 4, step_duration |-> 2, drag |-> [num |-> 0, den |-> 1], W |-> 6,
        obstacles |-> <<Rect(0, 0, 1, 6), Rect(3, 2, 4, 3), Rect(4, 2, 5, 3)>>,
        target |-> [point |-> Point(4, 4), radius |-> 1],
        starts |-> <<Point(2, 2), Point(2, 5)>>, radius |-> 1],
       (* one box, two substeps, drag 1/2, target disk reaching the border *)
       [seed |-> 2, step_duration |-> 2, drag |-> [num |-> 1, den |-> 2], W |-> 6,
        obstacles |-> <<Rect(2, 2, 3, 3)>>,
        target |-> [point |-> Point(4, 4), radius |-> 1],
        starts |-> <<Point(5, 1), Point(1, 5)>>, radius |-> 2],
       (* zero step_duration *)
       [seed |-> 7, step_duration |-> 0, drag |-> [num |-> 0, den |-> 1], W |-> 6,
        obstacles |-> <<Rect(0, 0, 1, 6)>>,
        target |-> [point |-> Point(4, 4), radius |-> 1],
        starts |-> <<Point(2, 2), Point(4, 3)>>, radius |-> 1] >>

CfgIds == 1..Len(Configs)

EnvIds == 1..3

----------------------------------------------------------------------------
(* The process-wide random source of the random module: an abstract        *)
(* deterministic generator whose stream is a function of the seed.         *)

(* random.seed(seed) *)
RandomSeed(seed) == seed % 4

(* state of the generator after one draw *)
RandomAdvance(r) == (r + 1) % 4

(* random.choice(seq): the element picked by the draw from state r *)
RandomChoice(r, seq) == seq[((RandomAdvance(r) \div 2) % Len(seq)) + 1]

----------------------------------------------------------------------------
(* Environment objects.  Beside the attributes of PynBall an environment   *)
(* carries two history fields used to state properties: phase ("fresh"     *)
(* before the first reset, "active" after it, "terminated" once the target *)
(* was hit, "again" after a reset that follows a termination) and last,    *)
(* the record of the most recent call and its result.                      *)

NoTuple == <<>>

NoCall ==
    [op |-> "none", action |-> -1, outcome |-> "none", state |-> NoTuple,
     reward |-> 0, terminal |-> FALSE, trace |-> <<>>, events |-> <<>>,
     before |-> NoBall, prePhase |-> "none"]

NotBuilt ==
    [built |-> FALSE, cfg |-> 0, reset_flag |-> FALSE, ball |-> NoBall,
     phase |-> "none", last |-> NoCall]

StateTuple(ball) == <<ball.x, ball.y, ball.xdot, ball.ydot>>

(* variant of NewEnv: the constructor leaves reset_flag set *)
NewEnvFlagSet(c) ==
    [built |-> TRUE, cfg |-> c, reset_flag |-> TRUE, ball |-> NoBall,
     phase |-> "fresh", last |-> [NoCall EXCEPT !.op = "init", !.outcome = "ok"]]

(* PynBall.__init__ : reset_flag False, ball None *)
NewEnv(c) ==
    [built |-> TRUE, cfg |-> c, reset_flag |-> FALSE, ball |-> NoBall,
     phase |-> "fresh", last |-> [NoCall EXCEPT !.op = "init", !.outcome = "ok"]]

(* PynBall.reset: the ball is the supplied one or a zero-velocity ball at  *)
(* the start drawn from the random source; reset_flag is set.              *)
ResetEnv(env, newBall) ==
    [env EXCEPT !.ball = newBall,
                !.reset_flag = TRUE,
                !.phase = IF env.phase \in {"terminated", "again"} THEN "again" ELSE "active",
                !.last = [NoCall EXCEPT !.op = "reset", !.outcome = "ok",
                                        !.state = StateTuple(newBall),
                                        !.prePhase = env.phase]]

StartBall(c, r) ==
    LET p == RandomChoice(r, Configs[c].starts)
    IN  Ball(p.x, p.y, 0, 0, Configs[c].radius)

(* PynBall.terminal *)
terminal(env) == TargetCollision(Configs[env.cfg].target, env.ball)

(* variant of InBounds: the border itself is accepted *)
InBoundsClosed(c, ball) ==
    LET point == get_center(ball)
    IN  0 <= point.x /\ point.x <= c.W /\ 0 <= point.y /\ point.y <= c.W

(* PynBall.check_bounds: TRUE when the centre is strictly inside *)
InBounds(c, ball) ==
    LET point == get_center(ball)
    IN  0 < point.x /\ point.x < c.W /\ 0 < point.y /\ point.y < c.W

----------------------------------------------------------------------------
(* PynBall.step *)

(* the assert at the head of step *)
Precondition(env) == env.reset_flag = TRUE

(* variant of Reward: the two penalties swapped *)
RewardSwapped(action) == IF action = 4 THEN THRUST_PENALTY ELSE NOP_PENALTY

Reward(action) == IF action = 4 THEN NOP_PENALTY ELSE THRUST_PENALTY

(* indices of the obstacles that report collision *)
Colliders(c, ball) ==
    {k \in 1..Len(c.obstacles) : ObstacleCollision(c.obstacles[k], ball)}

(* the last colliding obstacle in list order (0 when none) *)
Collidor(hits) == IF hits = {} THEN 0 ELSE CHOOSE k \in hits : \A j \in hits : j <= k

(* variant of TieBreak: any collision bounces off the last colliding obstacle *)
TieBreakLastCollidor(c, ball, hits) ==
    IF Cardinality(hits) >= 1
        THEN set_velocity(ball, collision_effect(c.obstacles[Collidor(hits)], ball))
    ELSE ball

(* velocity after the collision test of one substep *)
TieBreak(c, ball, hits) ==
    IF Cardinality(hits) = 1
        THEN set_velocity(ball, collision_effect(c.obstacles[Collidor(hits)], ball))
    ELSE IF Cardinality(hits) > 1
        THEN set_velocity(ball, Point(-ball.xdot, -ball.ydot))
    ELSE ball

(* whether substep i takes the bonus step *)
BonusStep(c, hits, i) == Cardinality(hits) = 1 /\ i = c.step_duration - 1

(* variant of SubstepResult: the target is tested before the bonus step *)
SubstepResultEarlyTarget(c, i, b1, hits, b2, b3) ==
    [ball |-> b3, hit |-> TargetCollision(c.target, b2),
     rec |-> [i |-> i, advanced |-> b1, hits |-> hits, collidor |-> Collidor(hits),
              velOut |-> Point(b2.xdot, b2.ydot), bonus |-> BonusStep(c, hits, i),
              final |-> get_center(b3), hit |-> TargetCollision(c.target, b2)],
     events |-> <<"advance">> \o (IF hits # {} THEN <<"set_velocity">> ELSE <<>>)
                \o <<"target">> \o (IF BonusStep(c, hits, i) THEN <<"bonus">> ELSE <<>>)]

(* the record of one iteration: the ball after it, whether the target was *)
(* hit, and what the iteration did                                         *)
SubstepResult(c, i, b1, hits, b2, b3) ==
    [ball |-> b3, hit |-> TargetCollision(c.target, b3),
     rec |-> [i |-> i, advanced |-> b1, hits |-> hits, collidor |-> Collidor(hits),
              velOut |-> Point(b2.xdot, b2.ydot), bonus |-> BonusStep(c, hits, i),
              final |-> get_center(b3), hit |-> TargetCollision(c.target, b3)],
     events |-> <<"advance">> \o (IF hits # {} THEN <<"set_velocity">> ELSE <<>>)
                \o (IF BonusStep(c, hits, i) THEN <<"bonus">> ELSE <<>>) \o <<"target">>]

(* the bonus step, then the target test *)
AfterTieBreak(c, i, b1, hits, b2) ==
    SubstepResult(c, i, b1, hits, b2,
                  IF BonusStep(c, hits, i) THEN BallStep(b2, 1, c.step_duration) ELSE b2)

(* the collision test over all obstacles and the tie-break *)
AfterAdvance(c, i, b1, hits) == AfterTieBreak(c, i, b1, hits, TieBreak(c, b1, hits))

Collide(c, i, b1) == AfterAdvance(c, i, b1, Colliders(c, b1))

(* one iteration of the substep loop: advance, collide, bonus, target *)
Substep(c, ball, i) == Collide(c, i, BallStep(ball, c.step_duration, c.step_duration))

RECURSIVE SubstepLoop(_, _, _, _, _)
RECURSIVE LoopFrom(_, _, _, _, _)

(* continue or break after iteration i, whose result is s *)
LoopFrom(c, i, trace, events, s) ==
    IF s.hit
        THEN [ball |-> s.ball, trace |-> Append(trace, s.rec),
              events |-> events \o s.events, terminal |-> TRUE]
    ELSE SubstepLoop(c, s.ball, i + 1, Append(trace, s.rec), events \o s.events)

(* for i in range(step_duration), with the break on terminal *)
SubstepLoop(c, ball, i, trace, events) ==
    IF i >= c.step_duration
        THEN [ball |-> ball, trace |-> trace, events |-> events, terminal |-> FALSE]
    ELSE LoopFrom(c, i, trace, events, Substep(c, ball, i))

(* variant of AfterLoop: the break on terminal skips the drag *)
AfterLoopDragOnCompletion(c, loop) ==
    [ball |-> IF loop.terminal THEN loop.ball ELSE add_drag(loop.ball, c.drag),
     events |-> loop.events \o (IF loop.terminal THEN <<"bounds">> ELSE <<"drag", "bounds">>),
     trace |-> loop.trace, terminal |-> loop.terminal]

(* what happens after the loop: drag, then the bounds check *)
AfterLoop(c, loop) ==
    [ball |-> add_drag(loop.ball, c.drag), events |-> loop.events \o <<"drag", "bounds">>,
     trace |-> loop.trace, terminal |-> loop.terminal]

StepFailed(env, action, error) ==
    [env EXCEPT !.last = [NoCall EXCEPT !.op = "step", !.action = action,
                                        !.outcome = error, !.before = env.ball,
                                        !.prePhase = env.phase]]

(* variant of FlagAfter: the flag is left as it was *)
FlagAfterKept(flag, hitTarget) == flag

(* reset_flag after the loop: cleared when the target was hit *)
FlagAfter(flag, hitTarget) == IF hitTarget THEN FALSE ELSE flag

(* the end of step: raise from check_bounds or return the result *)
StepFinish(env, action, fin, ok) ==
    [env EXCEPT
        !.ball = fin.ball,
        !.reset_flag = FlagAfter(@, fin.terminal),
        !.phase = IF fin.terminal THEN "terminated" ELSE @,
        !.last = [op |-> "step", action |-> action,
                  outcome |-> IF ok THEN "ok" ELSE "RuntimeError",
                  state |-> IF ok THEN StateTuple(fin.ball) ELSE NoTuple,
                  reward |-> IF ok THEN Reward(action) ELSE 0,
                  terminal |-> IF ok THEN fin.terminal ELSE FALSE,
                  trace |-> fin.trace, events |-> fin.events,
                  before |-> env.ball, prePhase |-> env.phase]]

StepBounds(env, action, c, fin) == StepFinish(env, action, fin, InBounds(c, fin.ball))

(* the body of step once the assert and the action lookup have passed *)
StepRun(env, action, c) ==
    StepBounds(env, action, c,
        AfterLoop(c, SubstepLoop(c,
            add_impulse(env.ball, ACTION_DICT[action][1], ACTION_DICT[action][2]),
            0, <<>>, <<"add_impulse">>)))

StepEnv(env, action) ==
    IF ~Precondition(env) THEN StepFailed(env, action, "AssertionError")
    ELSE IF action \notin DOMAIN ACTION_DICT THEN StepFailed(env, action, "KeyError")
    ELSE IF env.ball = NoBall THEN StepFailed(env, action, "AttributeError")
    ELSE StepRun(env, action, Configs[env.cfg])

(* PynBall.terminal called by the client: a query, nothing is changed *)
TerminalEnv(env) ==
    [env EXCEPT !.last = [NoCall EXCEPT !.op = "terminal",
                             !.outcome = IF env.ball = NoBall THEN "AttributeError" ELSE "ok",
                             !.terminal = IF env.ball = NoBall THEN FALSE ELSE terminal(env),
                             !.before = env.ball, !.prePhase = env.phase]]

----------------------------------------------------------------------------
(* Inputs *)

Actions == 0..5

Velocities == {Point(0, 0), Point(-MaxVel, 0), Point(1, 1)}

Positions == {Point(2, 2), Point(5, 4)}

(* balls a client may hand to reset *)
SuppliedBalls(c) ==
    {Ball(p.x, p.y, v.x, v.y, Configs[c].radius) : p \in Positions, v \in Velocities}

(* the model keeps the ball within MaxOut of the field and |v| <= MaxVel *)
WithinModel(env, action) ==
    IF env.ball = NoBall \/ action \notin DOMAIN ACTION_DICT THEN TRUE
    ELSE LET b == add_impulse(env.ball, ACTION_DICT[action][1], ACTION_DICT[action][2])
             c == Configs[env.cfg]
         IN  /\ Abs(b.xdot) <= MaxVel /\ Abs(b.ydot) <= MaxVel
             /\ -MaxOut <= b.x /\ b.x <= c.W + MaxOut
             /\ -MaxOut <= b.y /\ b.y <= c.W + MaxOut

----------------------------------------------------------------------------
(* One client driving one environment *)

Init ==
    /\ envs = [e \in EnvIds |-> NotBuilt]
    /\ rng \in 0..3
    /\ hist = [e \in EnvIds |-> <<>>]

ConstructEnv(e, c) ==
    /\ envs' = [envs EXCEPT ![e] = NewEnv(c)]
    /\ rng' = RandomSeed(Configs[c].seed)

ResetRandomEnv(e) ==
    /\ envs[e].built
    /\ envs' = [envs EXCEPT ![e] = ResetEnv(@, StartBall(@.cfg, rng))]
    /\ rng' = RandomAdvance(rng)

Construct == \E c \in CfgIds : ConstructEnv(1, c) /\ UNCHANGED hist

ResetRandom == ResetRandomEnv(1) /\ UNCHANGED hist

ResetWith ==
    /\ envs[1].built
    /\ \E b \in SuppliedBalls(envs[1].cfg) :
           envs' = [envs EXCEPT ![1] = ResetEnv(@, b)]
    /\ UNCHANGED <<rng, hist>>

Step ==
    /\ envs[1].built
    /\ \E a \in Actions :
           /\ WithinModel(envs[1], a)
           /\ envs' = [envs EXCEPT ![1] = StepEnv(@, a)]
    /\ UNCHANGED <<rng, hist>>

Terminal ==
    /\ envs[1].built
    /\ envs' = [envs EXCEPT ![1] = TerminalEnv(@)]
    /\ UNCHANGED <<rng, hist>>

Next == Construct \/ ResetRandom \/ ResetWith \/ Step \/ Terminal

Spec == Init /\ [][Next]_vars

----------------------------------------------------------------------------
(* Several environments in one process, sharing the random source.         *)
(* Environments 1 and 2 are observed: hist records each call with its      *)
(* result.  Environment 3 is only constructed and reset.                   *)

Observed == {1, 2}

DetActions == {0, 4}

Observable(last) ==
    [op |-> last.op, action |-> last.action, outcome |-> last.outcome,
     state |-> last.state, reward |-> last.reward, terminal |-> last.terminal]

Logged(e, h) == IF e \in Observed THEN [h EXCEPT ![e] = Append(@, Observable(envs'[e].last))] ELSE h

Room(e) == e \in Observed => Len(hist[e]) < MaxLog

DConstruct ==
    \E e \in EnvIds, c \in CfgIds :
        /\ ConstructEnv(e, c)
        /\ hist' = [hist EXCEPT ![e] = <<>>]

DReset ==
    \E e \in EnvIds :
        /\ Room(e)
        /\ ResetRandomEnv(e)
        /\ hist' = Logged(e, hist)

DStep ==
    \E e \in Observed, a \in DetActions :
        /\ envs[e].built
        /\ Room(e)
        /\ WithinModel(envs[e], a)
        /\ envs' = [envs EXCEPT ![e] = StepEnv(@, a)]
        /\ hist' = Logged(e, hist)
        /\ UNCHANGED rng

NextDet == DConstruct \/ DReset \/ DStep

SpecDet == Init /\ [][NextDet]_vars

----------------------------------------------------------------------------
(* Vocabulary of the properties *)

Cfg(e) == Configs[envs[e].cfg]

Last(e) == envs[e].last

(* the last call was a step that passed the assert and the action lookup *)
StepRan(e) == Last(e).op = "step" /\ Last(e).outcome \in {"ok", "RuntimeError"}

(* the last step saw the ball overlap the target at a target check *)
TargetHit(e) == \E k \in 1..Len(Last(e).trace) : Last(e).trace[k].hit

(* p is outside the open square (0,W)x(0,W) *)
Outside(p, w) == p.x <= 0 \/ p.x >= w \/ p.y <= 0 \/ p.y >= w

Count(seq, v) == Cardinality({k \in 1..Len(seq) : seq[k] = v})

(* velocity with which the last step left its substep loop *)
LoopVelocity(e) ==
    IF Last(e).trace = <<>>
        THEN Point(Last(e).before.xdot + ACTION_DICT[Last(e).action][1] * ThrustK,
                   Last(e).before.ydot + ACTION_DICT[Last(e).action][2] * ThrustK)
    ELSE Last(e).trace[Len(Last(e).trace)].velOut

(* position with which the last step left its substep loop *)
LoopPosition(e) ==
    IF Last(e).trace = <<>> THEN get_center(Last(e).before)
    ELSE Last(e).trace[Len(Last(e).trace)].final

----------------------------------------------------------------------------
(* C1: a new environment has reset_flag false and no ball, and a step made *)
(* before any reset fails with the "Environment requires resetting"        *)
(* assertion before the impulse is applied or any substep is run.          *)
C1_StepBeforeResetFails ==
    \A e \in EnvIds :
        /\ Last(e).op = "init" => envs[e].reset_flag = FALSE /\ envs[e].ball = NoBall
        /\ (envs[e].phase = "fresh" /\ Last(e).op = "step") =>
              /\ Last(e).outcome = "AssertionError"
              /\ Last(e).events = <<>> /\ Last(e).trace = <<>>
              /\ envs[e].ball = NoBall /\ envs[e].reset_flag = FALSE

C1_Witness ==
    envs[1].phase = "fresh" /\ Last(1).op = "step" /\ Last(1).action = 0
        /\ Last(1).outcome = "AssertionError"

(* C2 as stated: a step whose target check finds the ball on the target    *)
(* returns terminal = True and clears reset_flag.                          *)
C2_TerminalStepReturns ==
    \A e \in EnvIds :
        (Last(e).op = "step" /\ TargetHit(e)) =>
            Last(e).outcome = "ok" /\ Last(e).terminal /\ envs[e].reset_flag = FALSE

(* C2 amended: a step whose target check finds the ball on the target      *)
(* clears reset_flag and returns terminal = True, unless the ball centre   *)
(* is then outside the unit square, in which case it raises the bounds     *)
(* error (reset_flag still cleared); every later step fails the assert and *)
(* changes nothing until reset is called; after a reset step passes the    *)
(* assert again.                                                           *)
C2_TerminalClearsFlag ==
    \A e \in EnvIds :
        /\ (Last(e).op = "step" /\ TargetHit(e)) =>
              /\ envs[e].reset_flag = FALSE
              /\ \/ Last(e).outcome = "ok" /\ Last(e).terminal
                 \/ Last(e).outcome = "RuntimeError"
                      /\ Outside(get_center(envs[e].ball), Cfg(e).W)
        /\ (Last(e).op = "step" /\ Last(e).prePhase = "terminated") =>
              /\ Last(e).outcome = "AssertionError"
              /\ envs[e].ball = Last(e).before
              /\ envs[e].reset_flag = FALSE
        /\ (Last(e).op = "step" /\ Last(e).prePhase \in {"active", "again"}) =>
              Last(e).outcome # "AssertionError"
        /\ Last(e).op = "reset" => envs[e].reset_flag = TRUE

C2_Witness ==
    /\ Last(1).op = "step" /\ Last(1).prePhase = "again"
    /\ TargetHit(1) /\ Last(1).outcome = "ok" /\ Last(1).terminal

(* C3: a state returned by step has its centre strictly inside the unit    *)
(* square; when the centre at the end of a step is on or outside the       *)
(* border the step raises the bounds error and returns no state; the       *)
(* position is the one the substep loop produced, never clamped.           *)
C3_BoundsInvariant ==
    \A e \in EnvIds :
        StepRan(e) =>
            /\ Last(e).outcome = "ok" =>
                  /\ ~Outside(get_center(envs[e].ball), Cfg(e).W)
                  /\ Last(e).state = StateTuple(envs[e].ball)
            /\ Outside(get_center(envs[e].ball), Cfg(e).W) =>
                  Last(e).outcome = "RuntimeError" /\ Last(e).state = NoTuple
            /\ get_center(envs[e].ball) = LoopPosition(e)

C3_Witness ==
    /\ StepRan(1) /\ Last(1).outcome = "RuntimeError"
    /\ envs[1].ball.x = Cfg(1).W /\ 0 < envs[1].ball.y /\ envs[1].ball.y < Cfg(1).W
    /\ ~Outside(get_center(Last(1).before), Cfg(1).W)

(* C4: if after any substep advance or bonus advance of a step the centre  *)
(* is outside the open unit square, that step raises the bounds error.     *)
C4_ExitDetected ==
    \A e \in EnvIds :
        (StepRan(e) /\ \E k \in 1..Len(Last(e).trace) :
                           \/ Outside(get_center(Last(e).trace[k].advanced), Cfg(e).W)
                           \/ Outside(Last(e).trace[k].final, Cfg(e).W))
            => Last(e).outcome = "RuntimeError"

(* C5: a step that returns has reward -5 for actions 0..3 and -1 for       *)
(* action 4, whatever collisions happened in its substeps.                 *)
C5_RewardMapping ==
    \A e \in EnvIds :
        (Last(e).op = "step" /\ Last(e).outcome = "ok") =>
            /\ Last(e).action \in {0, 1, 2, 3} => Last(e).reward = -5
            /\ Last(e).action = 4 => Last(e).reward = -1

C5_Witness ==
    /\ Last(1).op = "step" /\ Last(1).outcome = "ok" /\ Last(1).action = 4
    /\ Last(1).reward = -1
    /\ \E k \in 1..Len(Last(1).trace) : Cardinality(Last(1).trace[k].hits) >= 2

(* C6: two environments with the same configuration (hence seed) that have *)
(* received the same calls have returned the same results, whatever other  *)
(* environments were constructed or reset in between.                      *)
C6_Deterministic ==
    (envs[1].built /\ envs[2].built /\ envs[1].cfg = envs[2].cfg) =>
        \A k \in 1..Len(hist[1]) :
            (k <= Len(hist[2]) /\ \A j \in 1..k :
                                      /\ hist[1][j].op = hist[2][j].op
                                      /\ hist[1][j].action = hist[2][j].action)
                => hist[1][k] = hist[2][k]

(* C7: no environment is ever constructed with step_duration = 0.          *)
C7_ZeroStepDurationRejected ==
    \A e \in EnvIds : envs[e].built => Cfg(e).step_duration # 0

(* C8: in every substep, no colliding obstacle leaves the velocity as it   *)
(* was, exactly one sets it to that obstacle's collision_effect, two or    *)
(* more set it to the reversed pre-collision velocity.                     *)
C8_TieBreakPolicy ==
    \A e \in EnvIds :
        StepRan(e) =>
            \A k \in 1..Len(Last(e).trace) :
                /\ Cardinality(Last(e).trace[k].hits) = 0 =>
                      Last(e).trace[k].velOut = Point(Last(e).trace[k].advanced.xdot,
                                                      Last(e).trace[k].advanced.ydot)
                /\ Cardinality(Last(e).trace[k].hits) = 1 =>
                      \E o \in Last(e).trace[k].hits :
                          Last(e).trace[k].velOut =
                              collision_effect(Cfg(e).obstacles[o], Last(e).trace[k].advanced)
                /\ Cardinality(Last(e).trace[k].hits) >= 2 =>
                      Last(e).trace[k].velOut = Point(-Last(e).trace[k].advanced.xdot,
                                                      -Last(e).trace[k].advanced.ydot)

C8_Witness ==
    /\ StepRan(1)
    /\ \E k \in 1..Len(Last(1).trace) :
           /\ Cardinality(Last(1).trace[k].hits) >= 2
           /\ \A o \in Last(1).trace[k].hits :
                  Last(1).trace[k].velOut #
                      collision_effect(Cfg(1).obstacles[o], Last(1).trace[k].advanced)

(* C9: a step that passes the precondition applies drag exactly once,      *)
(* after the substep loop and right before the bounds check, whether the   *)
(* loop completed or stopped early; reset and terminal() apply none.       *)
C9_DragOnce ==
    \A e \in EnvIds :
        /\ StepRan(e) =>
              /\ Count(Last(e).events, "drag") = 1
              /\ Last(e).events[Len(Last(e).events) - 1] = "drag"
              /\ Last(e).events[Len(Last(e).events)] = "bounds"
              /\ envs[e].ball.xdot =
                    Quot(LoopVelocity(e).x * (Cfg(e).drag.den - Cfg(e).drag.num), Cfg(e).drag.den)
              /\ envs[e].ball.ydot =
                    Quot(LoopVelocity(e).y * (Cfg(e).drag.den - Cfg(e).drag.num), Cfg(e).drag.den)
        /\ Last(e).op \in {"reset", "terminal"} => Count(Last(e).events, "drag") = 0
        /\ Last(e).op = "terminal" => envs[e].ball = Last(e).before

C9_Witness ==
    /\ StepRan(1) /\ TargetHit(1)
    /\ Len(Last(1).trace) < Cfg(1).step_duration
    /\ Cfg(1).drag.num > 0
    /\ Point(envs[1].ball.xdot, envs[1].ball.ydot) # LoopVelocity(1)

(* C10: with step_duration >= 1 the terminal flag a step returns is what   *)
(* terminal() reports right after it; and whenever reset_flag is false     *)
(* after at least one reset, the ball overlaps the target.                 *)
C10_TerminalAgrees ==
    \A e \in EnvIds :
        /\ (Last(e).op = "step" /\ Last(e).outcome = "ok" /\ Cfg(e).step_duration >= 1) =>
              Last(e).terminal = terminal(envs[e])
        /\ (envs[e].phase \in {"active", "terminated", "again"} /\ ~envs[e].reset_flag) =>
              terminal(envs[e])

C10_Witness ==
    /\ Last(1).op = "step" /\ Last(1).outcome = "ok" /\ Last(1).terminal
    /\ Last(1).trace[Len(Last(1).trace)].bonus
    /\ ~envs[1].reset_flag

====
